---- MODULE Spec2Model ----
(***************************************************************************)
(* Model of saleor/payment/gateways/pagseguro/__init__.py.                 *)
(*                                                                         *)
(* The module defines authorize, capture and void twice.  Python binds a   *)
(* module-level name to its last definition, so the names authorize,       *)
(* capture and void (as process_payment and every caller resolve them) are *)
(* the definitions of lines 358-407.  The definitions of lines 136-247 are *)
(* modelled as authorize_pagseguro, capture_pagseguro and void_pagseguro.  *)
(* refund is defined once (lines 250-292).                                 *)
(***************************************************************************)
EXTENDS Integers, Sequences, FiniteSets, TLC

VARIABLES pc, op, payment_information, config, processor_result, invoked,
          authorize_response, capture_response, errors, result

vars == <<pc, op, payment_information, config, processor_result, invoked,
          authorize_response, capture_response, errors, result>>

(* ---------------- bounds ---------------- *)
MaxErrors == 2

(* ---------------- Optional values: None is <<>>, a value x is <<x>> ----- *)
None == <<>>

Some(x) == <<x>>

(* ---------------- names imported from the package ---------------------- *)
NOT_CHARGED == "not-charged"

FULLY_CHARGED == "fully-charged"

FULLY_REFUNDED == "fully-refunded"

ChargeStatus_CHOICES == {NOT_CHARGED, FULLY_CHARGED, FULLY_REFUNDED}

AUTH == "auth"

CAPTURE == "capture"

VOID == "void"

REFUND == "refund"

DEFAULT_ERROR_MESSAGE == "Oops! Something went wrong."

(* ---------------- module constants -------------------------------------- *)
ERROR_CODES_WHITELIST ==
    [c \in {"91506"} |->
        "Cannot refund transaction unless it is settled. Please try again later."]

default_msg == "Unable to process transaction. Please try again in a moment"

(* ---------------- outcome of a call: a returned value or an exception --- *)
Returned(x) == [type |-> "return", value |-> <<x>>, exc |-> "", message |-> ""]

Raised(e, m) == [type |-> "raise", value |-> <<>>, exc |-> e, message |-> m]

(* dict.get(key, default) *)
Get(d, k, default) == IF k \in DOMAIN d THEN d[k] ELSE default

(* ---------------- get_error_for_client ---------------------------------- *)
RECURSIVE scan_errors(_, _)
scan_errors(errs, i) ==
    IF i > Len(errs) THEN default_msg
    ELSE IF errs[i].code \in DOMAIN ERROR_CODES_WHITELIST
         THEN IF ERROR_CODES_WHITELIST[errs[i].code] # ""
              THEN ERROR_CODES_WHITELIST[errs[i].code]
              ELSE errs[i].message
         ELSE scan_errors(errs, i + 1)

(* only the first entry is looked at *)
get_error_for_client_first_only(errs) ==
    IF errs = <<>> THEN ""
    ELSE IF errs[1].code \in DOMAIN ERROR_CODES_WHITELIST
         THEN IF ERROR_CODES_WHITELIST[errs[1].code] # ""
              THEN ERROR_CODES_WHITELIST[errs[1].code]
              ELSE errs[1].message
         ELSE default_msg

get_error_for_client(errs) ==
    IF errs = <<>> THEN "" ELSE scan_errors(errs, 1)

(* ---------------- extract_gateway_response ------------------------------ *)
(* the transaction's fields are read only from a successful result *)
extract_gateway_response_success_only(pagseguro_result) ==
    LET errs == IF ~pagseguro_result.is_success
                THEN [i \in 1..Len(pagseguro_result.deep_errors) |->
                        [code    |-> pagseguro_result.deep_errors[i].code,
                         message |-> pagseguro_result.deep_errors[i].message]]
                ELSE <<>>
        bt == pagseguro_result.transaction
    IN IF bt = None \/ ~pagseguro_result.is_success
       THEN [errors |-> errs]
       ELSE [transaction_id |-> IF bt[1].id = None THEN "" ELSE bt[1].id[1],
             currency       |-> bt[1].currency_iso_code,
             amount         |-> bt[1].amount,
             credit_card    |-> bt[1].credit_card,
             customer_id    |-> Some(bt[1].customer_details.id),
             errors         |-> errs]

extract_gateway_response(pagseguro_result) ==
    LET errs == IF ~pagseguro_result.is_success
                THEN [i \in 1..Len(pagseguro_result.deep_errors) |->
                        [code    |-> pagseguro_result.deep_errors[i].code,
                         message |-> pagseguro_result.deep_errors[i].message]]
                ELSE <<>>
        bt == pagseguro_result.transaction
    IN IF bt = None
       THEN [errors |-> errs]
       ELSE [transaction_id |-> IF bt[1].id = None THEN "" ELSE bt[1].id[1],
             currency       |-> bt[1].currency_iso_code,
             amount         |-> bt[1].amount,
             credit_card    |-> bt[1].credit_card,
             customer_id    |-> Some(bt[1].customer_details.id),
             errors         |-> errs]

(* ---------------- get_pagseguro_gateway --------------------------------- *)
get_pagseguro_gateway(cp) ==
    IF cp.merchant_id = "" \/ cp.private_key = "" \/ cp.public_key = ""
    THEN Raised("ImproperlyConfigured", "Incorrectly configured PagSeguro gateway.")
    ELSE Returned([environment |-> IF ~cp.sandbox_mode THEN "Production" ELSE "Sandbox",
                   merchant_id |-> cp.merchant_id,
                   public_key  |-> cp.public_key,
                   private_key |-> cp.private_key])

(* GatewayResponse(...) as built by the operations that normalize *)
NormalizedResponse(pi, sdk, kind, with_customer) ==
    LET gateway_response == extract_gateway_response(sdk)
        error == get_error_for_client(gateway_response.errors)
    IN [is_success      |-> sdk.is_success,
        action_required |-> FALSE,
        kind            |-> kind,
        amount          |-> Get(gateway_response, "amount", pi.amount),
        currency        |-> Get(gateway_response, "currency", pi.currency),
        customer_id     |-> IF with_customer
                            THEN Get(gateway_response, "customer_id", None)
                            ELSE None,
        transaction_id  |-> Get(gateway_response, "transaction_id", pi.token),
        error           |-> Some(error),
        raw_response    |-> Some(gateway_response)]

(* GatewayResponse(...) as built from dummy_success() *)
dummy_success == TRUE

DummyResponse(pi, kind, msg) ==
    LET success == dummy_success
        error == IF ~success THEN Some(msg) ELSE None
    IN [is_success      |-> success,
        action_required |-> FALSE,
        kind            |-> kind,
        amount          |-> pi.amount,
        currency        |-> pi.currency,
        customer_id     |-> None,
        transaction_id  |-> pi.token,
        error           |-> error,
        raw_response    |-> None]

(* ---------------- first definitions (lines 136-247) --------------------- *)
(* gateway.transaction.sale for a new / an existing customer: the gateway  *)
(* is built first, then the processor answers sdk (or raises NotFoundError) *)
transaction_for_new_customer(pi, cfg, sdk) ==
    LET gw == get_pagseguro_gateway(cfg.connection_params)
    IN IF gw.type = "raise" THEN gw
       ELSE IF sdk.not_found THEN Raised("NotFoundError", "")
       ELSE Returned(sdk)

transaction_for_existing_customer(pi, cfg, sdk) ==
    LET gw == get_pagseguro_gateway(cfg.connection_params)
    IN IF gw.type = "raise" THEN gw
       ELSE IF sdk.not_found THEN Raised("NotFoundError", "")
       ELSE Returned(sdk)

authorize_pagseguro(pi, cfg, sdk) ==
    LET r == IF pi.customer_id = None
             THEN transaction_for_new_customer(pi, cfg, sdk)
             ELSE transaction_for_existing_customer(pi, cfg, sdk)
    IN IF r.type = "raise"
       THEN IF r.exc = "NotFoundError"
            THEN Raised("PagSeguroException", DEFAULT_ERROR_MESSAGE)
            ELSE r
       ELSE Returned(NormalizedResponse(pi, r.value[1],
                        IF cfg.auto_capture THEN CAPTURE ELSE AUTH, TRUE))

capture_pagseguro(pi, cfg, sdk) ==
    LET gw == get_pagseguro_gateway(cfg.connection_params)
    IN IF gw.type = "raise" THEN gw
       ELSE IF sdk.not_found
            THEN Raised("PagSeguroException", DEFAULT_ERROR_MESSAGE)
       ELSE Returned(NormalizedResponse(pi, sdk, CAPTURE, FALSE))

void_pagseguro(pi, cfg, sdk) ==
    LET gw == get_pagseguro_gateway(cfg.connection_params)
    IN IF gw.type = "raise" THEN gw
       ELSE IF sdk.not_found
            THEN Raised("PagSeguroException", DEFAULT_ERROR_MESSAGE)
       ELSE Returned(NormalizedResponse(pi, sdk, VOID, FALSE))

(* ---------------- refund (lines 250-292) -------------------------------- *)
(* NotFoundError caught and turned into a failed Result *)
refund_not_found_as_result(pi, cfg, sdk) ==
    LET gw == get_pagseguro_gateway(cfg.connection_params)
    IN IF gw.type = "raise" THEN gw
       ELSE IF sdk.not_found
            THEN Returned([DummyResponse(pi, REFUND, "Unable to process refund")
                             EXCEPT !.is_success = FALSE,
                                    !.error = Some(DEFAULT_ERROR_MESSAGE)])
       ELSE Returned(DummyResponse(pi, REFUND, "Unable to process refund"))

(* the statements after the first return (lines 278-292) made live *)
refund_normalized(pi, cfg, sdk) ==
    LET gw == get_pagseguro_gateway(cfg.connection_params)
    IN IF gw.type = "raise" THEN gw
       ELSE IF sdk.not_found
            THEN Raised("PagSeguroException", DEFAULT_ERROR_MESSAGE)
       ELSE Returned(NormalizedResponse(pi, sdk, REFUND, FALSE))

refund(pi, cfg, sdk) ==
    LET gw == get_pagseguro_gateway(cfg.connection_params)
    IN IF gw.type = "raise" THEN gw
       ELSE IF sdk.not_found
            THEN Raised("PagSeguroException", DEFAULT_ERROR_MESSAGE)
       ELSE Returned(DummyResponse(pi, REFUND, "Unable to process refund"))

(* ---------------- last definitions (lines 358-407) ---------------------- *)
authorize(pi, cfg) ==
    Returned(DummyResponse(pi, AUTH, "Unable to authorize transaction"))

void(pi, cfg) ==
    Returned(DummyResponse(pi, VOID, "Unable to void the transaction."))

capture(pi, cfg) ==
    Returned(DummyResponse(pi, CAPTURE, "Unable to process capture"))

(* does the operation reach its processor call (the gateway was built)? *)
ReachesProcessor(cfg) == get_pagseguro_gateway(cfg.connection_params).type = "return"

(* ---------------- input domains ----------------------------------------- *)
Tokens == ChargeStatus_CHOICES \cup {"tok_abc123"}

PaymentDatas ==
    [amount : {10, 25}, currency : {"USD"}, token : Tokens,
     customer_id : {None, Some("cust_1")}]

ConnectionParams ==
    { [sandbox_mode |-> TRUE,  merchant_id |-> "m", public_key |-> "pub", private_key |-> "priv"],
      [sandbox_mode |-> FALSE, merchant_id |-> "m", public_key |-> "pub", private_key |-> "priv"],
      [sandbox_mode |-> TRUE,  merchant_id |-> "m", public_key |-> "pub", private_key |-> ""] }

GatewayConfigs == [auto_capture : BOOLEAN, connection_params : ConnectionParams]

ErrorObjects ==
    { [code |-> "91506", message |-> "raw settle msg",   attribute |-> "base"],
      [code |-> "81724", message |-> "raw declined msg", attribute |-> "base"],
      [code |-> "81703", message |-> "raw card msg",     attribute |-> "base"] }

ErrorLists == UNION { [1..n -> ErrorObjects] : n \in 0..MaxErrors }

ErrorEntries(objs) == [i \in 1..Len(objs) |-> [code |-> objs[i].code, message |-> objs[i].message]]

Transactions ==
    { None,
      Some([id |-> Some("txn_1"), currency_iso_code |-> "BRL", amount |-> 99,
            credit_card |-> "card", customer_details |-> [id |-> "cust_9"]]),
      Some([id |-> None, currency_iso_code |-> "BRL", amount |-> 99,
            credit_card |-> "card", customer_details |-> [id |-> "cust_9"]]) }

NotFound == [not_found |-> TRUE, is_success |-> FALSE, deep_errors |-> <<>>,
             transaction |-> None]

ProcessorResults ==
    {NotFound}
    \cup [not_found : {FALSE}, is_success : {TRUE}, deep_errors : {<<>>},
          transaction : Transactions]
    \cup [not_found : {FALSE}, is_success : {FALSE}, deep_errors : ErrorLists,
          transaction : Transactions]

(* ---------------- the tests of process_payment -------------------------- *)
(* the test written without its "not" *)
IsChargeStatus_inverted(token) == token \notin ChargeStatus_CHOICES

(* line 302: token in dict(ChargeStatus.CHOICES) *)
IsChargeStatus(token) == token \in ChargeStatus_CHOICES

(* the auto_capture test left out *)
ReturnsAuthorizeResponse_not_charged_only(charge_status, cfg) ==
    charge_status = NOT_CHARGED

(* lines 309-313: the two tests that return authorize_response *)
ReturnsAuthorizeResponse(charge_status, cfg) ==
    charge_status = NOT_CHARGED \/ ~cfg.auto_capture

(* the test written against the wrong status *)
RefundsAfterCapture_fully_charged(charge_status) == charge_status = FULLY_CHARGED

(* line 316 *)
RefundsAfterCapture(charge_status) == charge_status = FULLY_REFUNDED

(* ---------------- state machine ----------------------------------------- *)
Idle ==
    /\ pc = "idle"
    /\ op = "none"
    /\ payment_information = None
    /\ config = None
    /\ processor_result = None
    /\ invoked = <<>>
    /\ authorize_response = None
    /\ capture_response = None
    /\ errors = None
    /\ result = None

Init == Idle

(* a direct call of one operation: one processor call at most *)
DirectCall(name, pi, cfg, sdk, out, calls_processor) ==
    /\ pc' = "done"
    /\ op' = name
    /\ payment_information' = Some(pi)
    /\ config' = Some(cfg)
    /\ processor_result' = IF calls_processor /\ ReachesProcessor(cfg)
                           THEN Some(sdk) ELSE None
    /\ invoked' = <<[name |-> name, outcome |-> out]>>
    /\ result' = Some(out)
    /\ UNCHANGED <<authorize_response, capture_response, errors>>

Call_authorize_pagseguro ==
    /\ pc = "idle"
    /\ \E pi \in PaymentDatas, cfg \in GatewayConfigs, sdk \in ProcessorResults :
        DirectCall("authorize_pagseguro", pi, cfg, sdk, authorize_pagseguro(pi, cfg, sdk), TRUE)

Call_capture_pagseguro ==
    /\ pc = "idle"
    /\ \E pi \in PaymentDatas, cfg \in GatewayConfigs, sdk \in ProcessorResults :
        DirectCall("capture_pagseguro", pi, cfg, sdk, capture_pagseguro(pi, cfg, sdk), TRUE)

Call_void_pagseguro ==
    /\ pc = "idle"
    /\ \E pi \in PaymentDatas, cfg \in GatewayConfigs, sdk \in ProcessorResults :
        DirectCall("void_pagseguro", pi, cfg, sdk, void_pagseguro(pi, cfg, sdk), TRUE)

Call_refund ==
    /\ pc = "idle"
    /\ \E pi \in PaymentDatas, cfg \in GatewayConfigs, sdk \in ProcessorResults :
        DirectCall("refund", pi, cfg, sdk, refund(pi, cfg, sdk), TRUE)

Call_authorize ==
    /\ pc = "idle"
    /\ \E pi \in PaymentDatas, cfg \in GatewayConfigs :
        DirectCall("authorize", pi, cfg, NotFound, authorize(pi, cfg), FALSE)

Call_capture ==
    /\ pc = "idle"
    /\ \E pi \in PaymentDatas, cfg \in GatewayConfigs :
        DirectCall("capture", pi, cfg, NotFound, capture(pi, cfg), FALSE)

Call_void ==
    /\ pc = "idle"
    /\ \E pi \in PaymentDatas, cfg \in GatewayConfigs :
        DirectCall("void", pi, cfg, NotFound, void(pi, cfg), FALSE)

Call_get_error_for_client ==
    /\ pc = "idle"
    /\ \E objs \in ErrorLists :
        /\ pc' = "done"
        /\ op' = "get_error_for_client"
        /\ errors' = Some(ErrorEntries(objs))
        /\ result' = Some(Returned(get_error_for_client(ErrorEntries(objs))))
        /\ UNCHANGED <<payment_information, config, processor_result, invoked,
                       authorize_response, capture_response>>

(* process_payment, statement by statement *)
Call_process_payment ==
    /\ pc = "idle"
    /\ \E pi \in PaymentDatas, cfg \in GatewayConfigs :
        /\ pc' = "pp_302"
        /\ op' = "process_payment"
        /\ payment_information' = Some(pi)
        /\ config' = Some(cfg)
        /\ UNCHANGED <<processor_result, invoked, authorize_response,
                       capture_response, errors, result>>

(* lines 299-303 *)
PP_token ==
    /\ pc = "pp_302"
    /\ LET pi == payment_information[1]
           cfg == config[1]
       IN IF ~IsChargeStatus(pi.token)
          THEN LET out == capture(pi, cfg)
               IN /\ invoked' = Append(invoked, [name |-> "capture", outcome |-> out])
                  /\ result' = Some(out)
                  /\ pc' = "done"
          ELSE /\ pc' = "pp_308"
               /\ UNCHANGED <<invoked, result>>
    /\ UNCHANGED <<op, payment_information, config, processor_result,
                   authorize_response, capture_response, errors>>

(* lines 307-313 *)
PP_authorize ==
    /\ pc = "pp_308"
    /\ LET pi == payment_information[1]
           cfg == config[1]
           charge_status == pi.token
           out == authorize(pi, cfg)
       IN /\ invoked' = Append(invoked, [name |-> "authorize", outcome |-> out])
          /\ authorize_response' = Some(out)
          /\ IF ReturnsAuthorizeResponse(charge_status, cfg)
             THEN /\ result' = Some(out)
                  /\ pc' = "done"
             ELSE /\ pc' = "pp_315"
                  /\ UNCHANGED result
    /\ UNCHANGED <<op, payment_information, config, processor_result,
                   capture_response, errors>>

(* lines 315-318 (all but the call of refund) *)
PP_capture ==
    /\ pc = "pp_315"
    /\ LET pi == payment_information[1]
           cfg == config[1]
           charge_status == pi.token
           out == capture(pi, cfg)
       IN /\ invoked' = Append(invoked, [name |-> "capture", outcome |-> out])
          /\ capture_response' = Some(out)
          /\ IF RefundsAfterCapture(charge_status)
             THEN /\ pc' = "pp_317"
                  /\ UNCHANGED result
             ELSE /\ result' = Some(out)
                  /\ pc' = "done"
    /\ UNCHANGED <<op, payment_information, config, processor_result,
                   authorize_response, errors>>

(* a failed refund tried a second time *)
PP_refund_retry ==
    /\ pc = "pp_317"
    /\ \E sdk \in ProcessorResults :
         LET pi == payment_information[1]
             cfg == config[1]
             out == refund(pi, cfg, sdk)
             again == out.type = "raise" /\ Len(invoked) < 3
         IN /\ invoked' = Append(invoked, [name |-> "refund", outcome |-> out])
            /\ processor_result' = IF ReachesProcessor(cfg) THEN Some(sdk) ELSE None
            /\ result' = IF again THEN None ELSE Some(out)
            /\ pc' = IF again THEN "pp_317" ELSE "done"
    /\ UNCHANGED <<op, payment_information, config, authorize_response,
                   capture_response, errors>>

(* line 317 *)
PP_refund ==
    /\ pc = "pp_317"
    /\ \E sdk \in ProcessorResults :
         LET pi == payment_information[1]
             cfg == config[1]
             out == refund(pi, cfg, sdk)
         IN /\ invoked' = Append(invoked, [name |-> "refund", outcome |-> out])
            /\ processor_result' = IF ReachesProcessor(cfg) THEN Some(sdk) ELSE None
            /\ result' = Some(out)
            /\ pc' = "done"
    /\ UNCHANGED <<op, payment_information, config, authorize_response,
                   capture_response, errors>>

(* the caller has the outcome; the module keeps no state between calls *)
Return ==
    /\ pc = "done"
    /\ pc' = "idle"
    /\ op' = "none"
    /\ payment_information' = None
    /\ config' = None
    /\ processor_result' = None
    /\ invoked' = <<>>
    /\ authorize_response' = None
    /\ capture_response' = None
    /\ errors' = None
    /\ result' = None

PPStep == PP_token \/ PP_authorize \/ PP_capture \/ PP_refund

Next ==
    \/ Call_authorize_pagseguro
    \/ Call_capture_pagseguro
    \/ Call_void_pagseguro
    \/ Call_refund
    \/ Call_authorize
    \/ Call_capture
    \/ Call_void
    \/ Call_get_error_for_client
    \/ Call_process_payment
    \/ PP_token
    \/ PP_authorize
    \/ PP_capture
    \/ PP_refund
    \/ Return

Spec == Init /\ [][Next]_vars

(* process_payment is synchronous code: once entered it runs to its end *)
FairSpec == Spec /\ WF_vars(PPStep)

(* ======================= properties ===================================== *)
CallNames == [i \in 1..Len(invoked) |-> invoked[i].name]

Count(name) == Cardinality({i \in 1..Len(invoked) : invoked[i].name = name})

InProcessPayment == op = "process_payment"

Finished(name) == pc = "done" /\ op = name

IsPrefix(s, t) == Len(s) <= Len(t) /\ \A i \in 1..Len(s) : s[i] = t[i]

FirstDefinitions == {"authorize_pagseguro", "capture_pagseguro", "void_pagseguro"}

LastDefinitions == {"authorize", "capture", "void"}

(* C1: process_payment with a token that is not a ChargeStatus code invokes *)
(* capture exactly once, never authorize nor refund, and returns capture's  *)
(* Result, whose kind is CAPTURE.                                           *)
C1_RealTokenOnlyCaptures ==
    (InProcessPayment /\ payment_information[1].token \notin ChargeStatus_CHOICES) =>
        /\ IsPrefix(CallNames, <<"capture">>)
        /\ pc = "done" =>
             /\ CallNames = <<"capture">>
             /\ result = Some(invoked[1].outcome)
             /\ result[1].type = "return"
             /\ result[1].value[1].kind = CAPTURE

C1_Witness ==
    /\ Finished("process_payment")
    /\ payment_information[1].token = "tok_abc123"
    /\ CallNames = <<"capture">>
    /\ result[1].type = "return"

(* C2 (as stated): with token NOT_CHARGED process_payment returns the       *)
(* authorize Result, whose kind is CAPTURE when auto_capture is true and    *)
(* AUTH otherwise, and invokes neither capture nor refund.                  *)
C2_NotChargedKindFollowsAutoCapture ==
    (Finished("process_payment") /\ payment_information[1].token = NOT_CHARGED) =>
        /\ CallNames = <<"authorize">>
        /\ result = authorize_response
        /\ result[1].type = "return"
        /\ result[1].value[1].kind = IF config[1].auto_capture THEN CAPTURE ELSE AUTH

(* C3: with token FULLY_REFUNDED and auto_capture, process_payment invokes  *)
(* authorize, capture, refund in that order, each once; its outcome is      *)
(* refund's outcome, a returned Result has kind REFUND and is not the       *)
(* capture Result.                                                          *)
C3_FullyRefundedChain ==
    (/\ InProcessPayment
     /\ payment_information[1].token = FULLY_REFUNDED
     /\ config[1].auto_capture) =>
        /\ IsPrefix(CallNames, <<"authorize", "capture", "refund">>)
        /\ pc = "done" =>
             /\ CallNames = <<"authorize", "capture", "refund">>
             /\ result = Some(invoked[3].outcome)
             /\ result # capture_response
             /\ result[1].type = "return" => result[1].value[1].kind = REFUND

C3_Witness ==
    /\ Finished("process_payment")
    /\ payment_information[1].token = FULLY_REFUNDED
    /\ config[1].auto_capture
    /\ result[1].type = "return"
    /\ result[1].value[1].kind = REFUND
    /\ capture_response # None

(* C4: with any ChargeStatus token and auto_capture false, process_payment  *)
(* returns the authorize Result; capture and refund are never invoked.      *)
C4_ManualCaptureReturnsAuthorize ==
    (/\ InProcessPayment
     /\ payment_information[1].token \in ChargeStatus_CHOICES
     /\ ~config[1].auto_capture) =>
        /\ IsPrefix(CallNames, <<"authorize">>)
        /\ pc = "done" =>
             /\ CallNames = <<"authorize">>
             /\ result = authorize_response
             /\ result = Some(invoked[1].outcome)
             /\ result[1].type = "return"

C4_Witness ==
    /\ Finished("process_payment")
    /\ payment_information[1].token = FULLY_REFUNDED
    /\ ~config[1].auto_capture
    /\ result = authorize_response
    /\ result # None

(* C5 (as stated): every call of process_payment ends by returning exactly  *)
(* one Result.                                                              *)
C5_AlwaysReturnsAResult ==
    Finished("process_payment") =>
        /\ result # None
        /\ result[1].type = "return"

(* C5 (amended): every call of process_payment is a single pass that        *)
(* invokes each of authorize, capture and refund at most once and           *)
(* terminates; it ends with exactly one Result, or, when refund was invoked *)
(* and raised, with refund's exception.                                     *)
C5_SinglePassState ==
    InProcessPayment =>
        /\ Count("authorize") <= 1
        /\ Count("capture") <= 1
        /\ Count("refund") <= 1
        /\ Len(invoked) = Count("authorize") + Count("capture") + Count("refund")
        /\ pc # "done" => result = None
        /\ pc = "done" =>
             /\ result # None
             /\ result = Some(invoked[Len(invoked)].outcome)
             /\ result[1].type = "raise" =>
                  /\ invoked[Len(invoked)].name = "refund"
                  /\ result[1].exc \in {"PagSeguroException", "ImproperlyConfigured"}

C5_SinglePassTerminates ==
    /\ []C5_SinglePassState
    /\ (InProcessPayment /\ pc # "done") ~> (InProcessPayment /\ pc = "done")

C5_Witness ==
    /\ Finished("process_payment")
    /\ CallNames = <<"authorize", "capture", "refund">>
    /\ result[1].type = "raise"

GatewayOperations == FirstDefinitions \cup {"refund"}

C7_ErrorIffNotSuccess ==
    (/\ pc = "done"
     /\ op \in FirstDefinitions \cup LastDefinitions
     /\ result[1].type = "return") =>
        LET r == result[1].value[1]
        IN /\ r.is_success => r.error = None
           /\ ~r.is_success => (r.error # None /\ r.error # Some(""))

WhitelistedAt(errs) == {i \in 1..Len(errs) : errs[i].code \in DOMAIN ERROR_CODES_WHITELIST}

Min(S) == CHOOSE i \in S : \A j \in S : i <= j

(* C8: get_error_for_client returns "" for the empty list; otherwise the    *)
(* override of the first whitelisted entry (that entry's own message when   *)
(* the override is empty); otherwise the generic message; never the raw     *)
(* message of an entry that is not whitelisted.                             *)
C8_Classify ==
    Finished("get_error_for_client") =>
        LET errs == errors[1]
            out == result[1].value[1]
            W == WhitelistedAt(errs)
        IN /\ result[1].type = "return"
           /\ errs = <<>> => out = ""
           /\ (errs # <<>> /\ W # {}) =>
                LET e == errs[Min(W)]
                IN out = IF ERROR_CODES_WHITELIST[e.code] # ""
                         THEN ERROR_CODES_WHITELIST[e.code]
                         ELSE e.message
           /\ (errs # <<>> /\ W = {}) => out = default_msg
           /\ \A i \in 1..Len(errs) :
                errs[i].code \notin DOMAIN ERROR_CODES_WHITELIST => out # errs[i].message

C8_Witness ==
    /\ Finished("get_error_for_client")
    /\ Len(errors[1]) >= 2
    /\ errors[1][1].code \notin DOMAIN ERROR_CODES_WHITELIST
    /\ errors[1][2].code \in DOMAIN ERROR_CODES_WHITELIST
    /\ result[1].value[1] = ERROR_CODES_WHITELIST[errors[1][2].code]

(* C9: a Result of authorize, capture or void carries PaymentData's amount, *)
(* currency and token whenever the normalized result omits amount, currency *)
(* or transaction_id (no transaction object), and the normalized values     *)
(* when it carries them.                                                    *)
C9_FallbackToPaymentData ==
    (pc = "done" /\ op \in FirstDefinitions \cup LastDefinitions
     /\ result[1].type = "return") =>
        LET r == result[1].value[1]
            pi == payment_information[1]
        IN IF op \in LastDefinitions
           THEN r.amount = pi.amount /\ r.currency = pi.currency
                /\ r.transaction_id = pi.token
           ELSE LET gr == r.raw_response[1]
                    bt == processor_result[1].transaction
                IN IF bt = None
                   THEN /\ DOMAIN gr = {"errors"}
                        /\ r.amount = pi.amount
                        /\ r.currency = pi.currency
                        /\ r.transaction_id = pi.token
                   ELSE /\ {"amount", "currency", "transaction_id"} \subseteq DOMAIN gr
                        /\ r.amount = gr.amount /\ gr.amount = bt[1].amount
                        /\ r.currency = gr.currency
                        /\ gr.currency = bt[1].currency_iso_code
                        /\ r.transaction_id = gr.transaction_id
                        /\ gr.transaction_id =
                             IF bt[1].id = None THEN "" ELSE bt[1].id[1]

C9_Witness ==
    /\ Finished("capture_pagseguro")
    /\ result[1].type = "return"
    /\ ~result[1].value[1].is_success
    /\ processor_result[1].transaction = None
    /\ result[1].value[1].amount = payment_information[1].amount
    /\ result[1].value[1].transaction_id = payment_information[1].token

RefundReturned ==
    /\ pc = "done"
    /\ invoked # <<>>
    /\ invoked[Len(invoked)].name = "refund"
    /\ invoked[Len(invoked)].outcome.type = "return"

(* C10: a Result returned by refund has kind REFUND, is_success true, a     *)
(* null error and PaymentData's amount, currency and token, whatever the    *)
(* processor reported; the processor's result is not normalized.            *)
C10_RefundAlwaysSucceeds ==
    RefundReturned =>
        LET r == invoked[Len(invoked)].outcome.value[1]
            pi == payment_information[1]
        IN /\ processor_result # None
           /\ r.kind = REFUND
           /\ r.is_success
           /\ r.error = None
           /\ r.amount = pi.amount
           /\ r.currency = pi.currency
           /\ r.transaction_id = pi.token
           /\ r.raw_response = None

C10_Witness ==
    /\ RefundReturned
    /\ ~processor_result[1].is_success
    /\ processor_result[1].deep_errors # <<>>
    /\ processor_result[1].transaction # None
    /\ invoked[Len(invoked)].outcome.value[1].is_success

====
